---- MODULE Spec2Model ----
(***************************************************************************)
(* Model of load_intan_rhd_format_spike_extraction.py:                     *)
(* extract_analyze_and_plot_spikes (lines 69-117) and the unpacking of its *)
(* return value by the script body (line 122).                             *)
(*                                                                         *)
(* Samples are integer-valued.  Python indices are 0-based; a signal is a  *)
(* TLA+ sequence and At(x, i) reads the sample at Python index i.          *)
(* Amplitudes derived from max_amplitude (threshold, min_height,           *)
(* max_height) are kept in units of 1/Scale so that ratio*max_amplitude,   *)
(* (1/3)*max_amplitude and (1/2)*max_amplitude are exact; for integer      *)
(* samples the comparisons of find_peaks on IEEE doubles agree with the    *)
(* exact ones.  Times are kept in units of 1/TimeScale ms, threshold       *)
(* ratios in units of 1/RatioScale.                                        *)
(*                                                                         *)
(* The arguments of a call are fixed when it is made and never assigned;   *)
(* each is drawn at the statement that first reads it and kept in args.    *)
(***************************************************************************)
EXTENDS Integers, Sequences, FiniteSets, TLC

\* ---------------------------------------------------------------- bounds
MaxLen == 5
MaxLenPair == 4
MaxComponents == 2

\* ------------------------------------------------------- units and inputs
Scale == 30
RatioScale == 10
TimeScale == 2
MsPerSecond == 1000

\* sample values: two negative levels, zero, and two positive levels of
\* which the lower lies in the band of the higher
Values == {-2, -1, 0, 1, 2}
SignalsUpTo(n) == UNION {[1..m -> Values] : m \in 0..n}
\* None is Python's None; a present sample rate r is <<r>>
None == <<>>
SampleRates == {None, <<1000>>}
\* 0.3 (the script's ratio, line 122) and 1.0
ThresholdRatios == {3, 10}
\* 0, 0.5, 1 and 3 ms
Times == {0, 1, 2, 6}
Components == 1..MaxComponents
Keys == {"amplifier_data", "t_amplifier", "sample_rate"}
channel_index == 0

\* the mapping read_data returns when every key is present
FullResult(sig, rate) ==
    [key \in Keys |->
        CASE key = "amplifier_data" -> <<sig>>
          [] key = "t_amplifier" -> [i \in 1..Len(sig) |-> i - 1]
          [] OTHER -> rate]

Restrict(f, K) == [key \in K |-> f[key]]

Results(n) == {Restrict(FullResult(sig, rate), K) :
                   sig \in SignalsUpTo(n), rate \in SampleRates,
                   K \in SUBSET Keys}

\* ---------------------------------------------------------------- helpers
At(x, i) == x[i + 1]

Max2(a, b) == IF a >= b THEN a ELSE b
Min2(a, b) == IF a <= b THEN a ELSE b

\* x[start:end] for 0 <= start, end <= len(x)
Slice(x, start, end) ==
    IF end <= start THEN <<>> ELSE [j \in 1..(end - start) |-> x[start + j]]

\* np.max of a non-empty signal
RECURSIVE NpMax(_)
NpMax(x) ==
    IF Len(x) = 1 THEN x[1] ELSE Max2(x[1], NpMax(Tail(x)))

\* int((t / 1000) * sample_rate), t in units of 1/TimeScale ms, t >= 0
ToSamples(t, rate) == (t * rate) \div (MsPerSecond * TimeScale)

\* line 90: float(threshold_ratio) * max_amplitude
Threshold(ratio, max_amp) == (Scale \div RatioScale) * ratio * max_amp

\* lines 94-95
MinHeight(max_amp) == (Scale \div 3) * max_amp
MaxHeight(max_amp) == (Scale \div 2) * max_amp

\* ThresholdBand with the lower edge of the band taken from the threshold
ThresholdBandFromRatio(x, ratio) ==
    [max_amplitude |-> NpMax(x),
     threshold |-> Threshold(ratio, NpMax(x)),
     min_height |-> Threshold(ratio, NpMax(x)),
     max_height |-> MaxHeight(NpMax(x))]

\* lines 89-95 for a non-empty signal
ThresholdBand(x, ratio) ==
    [max_amplitude |-> NpMax(x),
     threshold |-> Threshold(ratio, NpMax(x)),
     min_height |-> MinHeight(NpMax(x)),
     max_height |-> MaxHeight(NpMax(x))]

\* scipy.signal._peak_finding_utils._local_maxima_1d: the inner scan over a
\* run of samples equal to x[i]
RECURSIVE PlateauEnd(_, _, _)
PlateauEnd(x, i, i_ahead) ==
    IF i_ahead < Len(x) - 1 /\ At(x, i_ahead) = At(x, i)
    THEN PlateauEnd(x, i, i_ahead + 1)
    ELSE i_ahead

\* LocalMaxima1d that reports every sample above its left neighbour
RECURSIVE LocalMaxima1dNoFall(_, _)
LocalMaxima1dNoFall(x, i) ==
    IF i >= Len(x) - 1 THEN <<>>
    ELSE IF At(x, i - 1) < At(x, i)
         THEN <<i>> \o LocalMaxima1dNoFall(x, i + 1)
         ELSE LocalMaxima1dNoFall(x, i + 1)

\* _local_maxima_1d: midpoints of the plateaus whose two edges fall
RECURSIVE LocalMaxima1d(_, _)
LocalMaxima1d(x, i) ==
    IF i >= Len(x) - 1 THEN <<>>
    ELSE IF At(x, i - 1) < At(x, i)
         THEN LET i_ahead == PlateauEnd(x, i, i + 1)
              IN  IF At(x, i_ahead) < At(x, i)
                  THEN <<(i + (i_ahead - 1)) \div 2>>
                           \o LocalMaxima1d(x, i_ahead + 1)
                  ELSE LocalMaxima1d(x, i + 1)
         ELSE LocalMaxima1d(x, i + 1)

\* InHeight without the upper edge
InHeightNoMax(v, pmin, pmax) == pmin <= Scale * v
\* InHeight without the lower edge
InHeightNoMin(v, pmin, pmax) == Scale * v <= pmax
\* InHeight with the edges excluded
InHeightStrict(v, pmin, pmax) ==
    pmin < Scale * v /\ Scale * v < pmax

\* _select_by_property with height=(pmin, pmax)
InHeight(v, pmin, pmax) ==
    pmin <= Scale * v /\ Scale * v <= pmax

\* find_peaks(x, height=(pmin, pmax))[0]
FindPeaks(x, pmin, pmax) ==
    SelectSeq(LocalMaxima1d(x, 1), LAMBDA p : InHeight(At(x, p), pmin, pmax))

\* lines 105-106
WindowStart(spike, pre) == Max2(0, spike - pre)
WindowEnd(x, spike, post) == Min2(Len(x), spike + post)
\* SameSize that also lets a clipped window through
SameSizeAtMost(start, end, pre, post) == end - start <= pre + post
\* SameSize that refuses an empty window
SameSizeNonEmpty(start, end, pre, post) ==
    end - start = pre + post /\ end > start
\* line 107
SameSize(start, end, pre, post) == end - start = pre + post

\* Accept that puts the new row first
AcceptFirst(waveforms, row) == <<row>> \o waveforms
\* line 108
Accept(waveforms, row) == Append(waveforms, row)

\* PcaRejects that only refuses an empty matrix
PcaRejectsEmptyOnly(rows, cols, n) == rows = 0 \/ cols = 0

\* PCA(n_components).fit_transform(X): X is 1-D when no row was appended,
\* has no feature when the rows are empty, and n_components must not exceed
\* min(n_samples, n_features)
PcaRejects(rows, cols, n) ==
    rows = 0 \/ cols = 0 \/ n > Min2(rows, cols)

\* ------------------------------------------------------------------ state
VARIABLES result, args, pc, signal, time, sample_rate, pre_samples,
          post_samples, max_amplitude, threshold, min_height, max_height,
          spikes, aligned_time, k, spike_waveforms, spike_features,
          raised, returned, stages, prev

vars == <<result, args, pc, signal, time, sample_rate, pre_samples,
          post_samples, max_amplitude, threshold, min_height, max_height,
          spikes, aligned_time, k, spike_waveforms, spike_features,
          raised, returned, stages, prev>>

locals == <<signal, time, sample_rate, pre_samples, post_samples,
            max_amplitude, threshold, min_height, max_height, spikes,
            aligned_time, k, spike_waveforms, spike_features>>

\* the state of a call before its first statement
Enter ==
    /\ pc = "check_keys"
    /\ signal = <<>> /\ time = <<>> /\ sample_rate = None
    /\ pre_samples = 0 /\ post_samples = 0
    /\ max_amplitude = 0 /\ threshold = 0
    /\ min_height = 0 /\ max_height = 0
    /\ spikes = <<>> /\ aligned_time = 0 /\ k = 0
    /\ spike_waveforms = <<>> /\ spike_features = <<>>
    /\ raised = "none" /\ returned = "none"
    /\ stages = {}

Init ==
    /\ result \in Results(MaxLen)
    /\ args = <<>>
    /\ prev = <<>>
    /\ Enter

InitPair ==
    /\ result \in Results(MaxLenPair)
    /\ args = <<>>
    /\ prev = <<>>
    /\ Enter

\* the values argument name may have: the one the call was made with once
\* it has been read, any of S before
Arg(name, S) == IF name \in DOMAIN args THEN {args[name]} ELSE S

Raise(exc) ==
    /\ pc' = "raised"
    /\ raised' = exc
    /\ UNCHANGED returned

Goto(label) ==
    /\ pc' = label
    /\ UNCHANGED <<raised, returned>>

\* lines 71-73
CheckKeys ==
    /\ pc = "check_keys"
    /\ IF "amplifier_data" \notin DOMAIN result
          \/ "t_amplifier" \notin DOMAIN result
       THEN /\ pc' = "returned"
            /\ returned' = "None"
            /\ UNCHANGED raised
       ELSE Goto("load")
    /\ UNCHANGED <<result, args, prev, locals, stages>>

\* lines 76-80
Load ==
    /\ pc = "load"
    /\ signal' = result["amplifier_data"][channel_index + 1]
    /\ time' = result["t_amplifier"]
    /\ IF "sample_rate" \notin DOMAIN result
       THEN /\ Raise("KeyError")
            /\ UNCHANGED sample_rate
       ELSE /\ sample_rate' = result["sample_rate"]
            /\ IF result["sample_rate"] = None
               THEN Raise("ValueError")
               ELSE Goto("convert")
    /\ UNCHANGED <<result, args, prev, pre_samples, post_samples,
                   max_amplitude, threshold, min_height, max_height, spikes,
                   aligned_time, k, spike_waveforms, spike_features, stages>>

\* lines 83-84
Convert ==
    /\ pc = "convert"
    /\ \E pre_time \in Arg("pre_time", Times),
          post_time \in Arg("post_time", Times) :
          /\ args' = ("pre_time" :> pre_time) @@ ("post_time" :> post_time)
                         @@ args
          /\ pre_samples' = ToSamples(pre_time, sample_rate[1])
          /\ post_samples' = ToSamples(post_time, sample_rate[1])
    /\ Goto("threshold")
    /\ UNCHANGED <<result, prev, signal, time, sample_rate, max_amplitude,
                   threshold, min_height, max_height, spikes, aligned_time,
                   k, spike_waveforms, spike_features, stages>>

\* lines 89-95
ThresholdEstimator ==
    /\ pc = "threshold"
    /\ stages' = stages \cup {"threshold"}
    /\ IF Len(signal) = 0
       THEN /\ Raise("ValueError")
            /\ UNCHANGED <<args, max_amplitude, threshold, min_height,
                           max_height>>
       ELSE /\ \E threshold_ratio \in Arg("threshold_ratio", ThresholdRatios) :
                 /\ args' = ("threshold_ratio" :> threshold_ratio) @@ args
                 /\ LET band == ThresholdBand(signal, threshold_ratio)
                    IN  /\ max_amplitude' = band.max_amplitude
                        /\ threshold' = band.threshold
                        /\ min_height' = band.min_height
                        /\ max_height' = band.max_height
            /\ Goto("detect")
    /\ UNCHANGED <<result, prev, signal, time, sample_rate, pre_samples,
                   post_samples, spikes, aligned_time, k, spike_waveforms,
                   spike_features>>

\* lines 98-103; aligned_time is kept by its length
PeakDetector ==
    /\ pc = "detect"
    /\ stages' = stages \cup {"detect"}
    /\ spikes' = FindPeaks(signal, min_height, max_height)
    /\ spike_waveforms' = <<>>
    /\ aligned_time' = pre_samples + post_samples
    /\ k' = 0
    /\ Goto("extract")
    /\ UNCHANGED <<result, args, prev, signal, time, sample_rate,
                   pre_samples, post_samples, max_amplitude, threshold,
                   min_height, max_height, spike_features>>

\* lines 104-108, one iteration
ExtractWindow ==
    /\ pc = "extract"
    /\ k < Len(spikes)
    /\ stages' = stages \cup {"extract"}
    /\ LET spike == At(spikes, k)
           start == WindowStart(spike, pre_samples)
           end == WindowEnd(signal, spike, post_samples)
       IN  spike_waveforms' =
               IF SameSize(start, end, pre_samples, post_samples)
               THEN Accept(spike_waveforms, Slice(signal, start, end))
               ELSE spike_waveforms
    /\ k' = k + 1
    /\ Goto("extract")
    /\ UNCHANGED <<result, args, prev, signal, time, sample_rate,
                   pre_samples, post_samples, max_amplitude, threshold,
                   min_height, max_height, spikes, aligned_time,
                   spike_features>>

\* lines 104, 110: the loop is exhausted
ExtractDone ==
    /\ pc = "extract"
    /\ k = Len(spikes)
    /\ stages' = stages \cup {"extract"}
    /\ Goto("reduce")
    /\ UNCHANGED <<result, args, prev, locals>>

\* lines 110-117; spike_features is kept by its shape
FeatureReducer ==
    /\ pc = "reduce"
    /\ stages' = stages \cup {"reduce"}
    /\ \E n_components \in Arg("n_components", Components) :
          /\ args' = ("n_components" :> n_components) @@ args
          /\ LET rows == Len(spike_waveforms)
                 cols == pre_samples + post_samples
             IN  IF PcaRejects(rows, cols, n_components)
                 THEN /\ Raise("ValueError")
                      /\ UNCHANGED spike_features
                 ELSE /\ spike_features' = <<rows, n_components>>
                      /\ pc' = "returned"
                      /\ returned' = "tuple"
                      /\ UNCHANGED raised
    /\ UNCHANGED <<result, prev, signal, time, sample_rate, pre_samples,
                   post_samples, max_amplitude, threshold, min_height,
                   max_height, spikes, aligned_time, k, spike_waveforms>>

\* line 122: the script unpacks seven values
Unpack ==
    /\ pc = "returned"
    /\ IF returned = "None"
       THEN /\ pc' = "main_raised"
            /\ raised' = "TypeError"
       ELSE /\ pc' = "main"
            /\ UNCHANGED raised
    /\ UNCHANGED <<result, args, prev, locals, returned, stages>>

Finished == pc \in {"raised", "main", "main_raised"}

\* what a finished call leaves to its caller
Outcome ==
    [threshold_ratio |-> args["threshold_ratio"], threshold |-> threshold,
     min_height |-> min_height, max_height |-> max_height,
     spikes |-> spikes, spike_waveforms |-> spike_waveforms,
     raised |-> raised, returned |-> returned, stages |-> stages]

\* line 69: a second call on the same result with the same arguments except
\* threshold_ratio, once a first call that read threshold_ratio has finished
Reinvoke ==
    /\ Finished
    /\ prev = <<>>
    /\ "threshold_ratio" \in DOMAIN args
    /\ prev' = <<Outcome>>
    /\ \E ratio \in ThresholdRatios \ {args["threshold_ratio"]} :
          args' = [args EXCEPT !["threshold_ratio"] = ratio]
    /\ pc' = "check_keys"
    /\ signal' = <<>> /\ time' = <<>> /\ sample_rate' = None
    /\ pre_samples' = 0 /\ post_samples' = 0
    /\ max_amplitude' = 0 /\ threshold' = 0
    /\ min_height' = 0 /\ max_height' = 0
    /\ spikes' = <<>> /\ aligned_time' = 0 /\ k' = 0
    /\ spike_waveforms' = <<>> /\ spike_features' = <<>>
    /\ raised' = "none" /\ returned' = "none"
    /\ stages' = {}
    /\ UNCHANGED result

Next ==
    \/ CheckKeys
    \/ Load
    \/ Convert
    \/ ThresholdEstimator
    \/ PeakDetector
    \/ ExtractWindow
    \/ ExtractDone
    \/ FeatureReducer
    \/ Unpack

NextPair ==
    \/ Next
    \/ Reinvoke

\* one call
Spec == Init /\ [][Next]_vars

\* two calls that differ in threshold_ratio only
SpecPair == InitPair /\ [][NextPair]_vars

\* ----------------------------------------------------------------- claims
N == Len(signal)
Interior(i) == 1 <= i /\ i <= N - 2
StrictMax(i) ==
    At(signal, i) > At(signal, i - 1) /\ At(signal, i) > At(signal, i + 1)
\* max_amplitude/3 <= v <= max_amplitude/2
InBand(v) == 3 * v >= max_amplitude /\ 2 * v <= max_amplitude
\* the band was computed (the signal was not empty)
BandComputed == "threshold" \in stages /\ N > 0
\* find_peaks has returned
Detected == "detect" \in stages
\* the extraction loop is over
Extracted == pc = "reduce" \/ "reduce" \in stages
\* the window of spike s lies inside [0, N)
Unclipped(s) == s - pre_samples >= 0 /\ s + post_samples <= N
W == pre_samples + post_samples
KeyMissing ==
    "amplifier_data" \notin DOMAIN result \/ "t_amplifier" \notin DOMAIN result
NoSampleRate ==
    "sample_rate" \notin DOMAIN result \/ result["sample_rate"] = None

\* C1 as stated: every detected spike index is interior, a strict local
\* maximum of the signal, and lies in [max_amplitude/3, max_amplitude/2]
C1_SpikesAreStrictMaxima ==
    Detected =>
        \A j \in 1..Len(spikes) :
            /\ Interior(spikes[j])
            /\ StrictMax(spikes[j])
            /\ InBand(At(signal, spikes[j]))

\* C1 amended: every detected spike index s is interior, Signal[s] is not
\* below either neighbour and lies in the band, and s is the midpoint
\* (rounded down) of a run of equal samples inside the signal whose two
\* outer neighbours are strictly smaller
C1_SpikesArePlateauMidpoints ==
    Detected =>
        \A j \in 1..Len(spikes) :
            LET s == spikes[j] IN
            /\ Interior(s)
            /\ At(signal, s) >= At(signal, s - 1)
            /\ At(signal, s) >= At(signal, s + 1)
            /\ InBand(At(signal, s))
            /\ \E l \in 1..s, r \in s..(N - 2) :
                  /\ \A i \in l..r : At(signal, i) = At(signal, s)
                  /\ At(signal, l - 1) < At(signal, s)
                  /\ At(signal, r + 1) < At(signal, s)
                  /\ s = (l + r) \div 2

\* a spike was reported on a run of two or more equal samples
C1_PlateauSpikeReported ==
    /\ Detected
    /\ \E j \in 1..Len(spikes) :
          At(signal, spikes[j]) = At(signal, spikes[j] + 1)

\* C2: every interior strict local maximum in the band is in the Spike
\* Index Set exactly once, and the set is strictly ascending
C2_PeaksComplete ==
    Detected =>
        /\ \A i \in 1..(N - 2) :
              StrictMax(i) /\ InBand(At(signal, i)) =>
                  Cardinality({j \in 1..Len(spikes) : spikes[j] = i}) = 1
        /\ \A j \in 1..(Len(spikes) - 1) : spikes[j] < spikes[j + 1]

\* two strict local maxima in the band were found
C2_TwoPeaksFound ==
    /\ Detected
    /\ Len(spikes) >= 2
    /\ \A j \in 1..Len(spikes) : StrictMax(spikes[j])

\* C3: of the spikes the loop has visited, exactly the unclipped ones have a
\* row; there are no more rows than spikes and every row has length
\* pre_samples + post_samples
C3_RowIffUnclipped ==
    Detected =>
        /\ Len(spike_waveforms) =
               Cardinality({j \in 1..k : Unclipped(spikes[j])})
        /\ Len(spike_waveforms) <= Len(spikes)
        /\ \A r \in 1..Len(spike_waveforms) : Len(spike_waveforms[r]) = W

\* the loop is over, one spike was kept and one was dropped for a window
\* that starts before the signal
C3_ClippedAndKept ==
    /\ pc = "reduce"
    /\ Len(spike_waveforms) >= 1
    /\ \E j \in 1..Len(spikes) : spikes[j] - pre_samples < 0

\* C4 as stated: with pre_samples + post_samples <= 0 the Waveform Matrix
\* has no row
C4_ZeroWindowNoRows ==
    Extracted /\ W <= 0 => Len(spike_waveforms) = 0

\* C4 amended: with pre_samples = post_samples = 0 every detected spike is
\* accepted with an empty window: one row of length 0 per detected spike
C4_ZeroWindowKeepsEverySpike ==
    Extracted /\ W = 0 =>
        /\ Len(spike_waveforms) = Len(spikes)
        /\ \A r \in 1..Len(spike_waveforms) : spike_waveforms[r] = <<>>

\* the loop is over, both sample counts floored to 0 from a positive time,
\* and a spike had been detected
C4_ZeroWindowWithSpike ==
    /\ pc = "reduce"
    /\ W = 0
    /\ args["pre_time"] > 0 /\ args["post_time"] > 0
    /\ Len(spikes) >= 1

\* C5 as stated: with a required key absent the call ends in an error before
\* any stage runs and never returns to its caller
C5_MissingKeyIsFatal ==
    KeyMissing /\ pc # "check_keys" =>
        /\ returned = "none"
        /\ raised # "none"
        /\ stages = {}

\* C6 as stated: with sample_rate null or absent the call ends in an error,
\* no stage has run and nothing is returned
C6_NoSampleRateIsError ==
    NoSampleRate /\ pc \notin {"check_keys", "load"} =>
        /\ pc = "raised"
        /\ returned = "none"
        /\ stages = {}

\* C7: once the Feature Reducer has run on a matrix with no row, or with
\* n_components above the row or the column count, the call has raised and
\* returns nothing
C7_ReducerRejects ==
    /\ "reduce" \in stages
    /\ \/ Len(spike_waveforms) = 0
       \/ args["n_components"] > Len(spike_waveforms)
       \/ args["n_components"] > W
    => /\ pc = "raised"
       /\ returned = "none"
       /\ spike_features = <<>>

\* one row was accepted, two components were asked for, and the call raised
C7_OneRowTwoComponents ==
    /\ "reduce" \in stages
    /\ Len(spike_waveforms) = 1
    /\ W >= 2
    /\ args["n_components"] = 2
    /\ pc = "raised"

\* C8: the band is [max_amplitude/3, max_amplitude/2], and two calls that
\* differ only in threshold_ratio end with the same band, Spike Index Set
\* and Waveform Matrix
C8_RatioIndependent ==
    /\ BandComputed =>
          /\ 3 * min_height = Scale * max_amplitude
          /\ 2 * max_height = Scale * max_amplitude
    /\ prev # <<>> /\ Finished =>
          /\ prev[1].threshold_ratio # args["threshold_ratio"]
          /\ prev[1].min_height = min_height
          /\ prev[1].max_height = max_height
          /\ prev[1].spikes = spikes
          /\ prev[1].spike_waveforms = spike_waveforms

\* two finished calls reported different thresholds and accepted a spike
C8_TwoCallsDone ==
    /\ prev # <<>>
    /\ Finished
    /\ prev[1].threshold # threshold
    /\ Len(spike_waveforms) >= 1

\* C9: min_height <= max_height when max_amplitude > 0; the band is inverted
\* exactly when max_amplitude < 0, and then find_peaks returns no spike and
\* the call goes on to the extraction loop
C9_InvertedBandNoSpikes ==
    BandComputed =>
        /\ max_amplitude > 0 => min_height <= max_height
        /\ min_height > max_height <=> max_amplitude < 0
        /\ Detected /\ min_height > max_height =>
              /\ spikes = <<>>
              /\ raised # "none" => "reduce" \in stages

\* find_peaks has run on a signal with a strict local maximum and an
\* inverted band
C9_InvertedBandWithMaximum ==
    /\ Detected
    /\ min_height > max_height
    /\ \E i \in 1..(N - 2) : StrictMax(i)

\* C10: the rows are the windows of the unclipped spikes visited so far, in
\* spike order; with post_samples >= 1 the spike sample is at column
\* pre_samples; the signal is the one the result holds
C10_RowsAreWindows ==
    Detected =>
        LET a == SelectSeq(SubSeq(spikes, 1, k), Unclipped) IN
        /\ Len(spike_waveforms) = Len(a)
        /\ \A r \in 1..Len(spike_waveforms) :
              /\ spike_waveforms[r] =
                     [c \in 1..W |-> At(signal, a[r] - pre_samples + c - 1)]
              /\ post_samples >= 1 =>
                     spike_waveforms[r][pre_samples + 1] = At(signal, a[r])
        /\ signal = result["amplifier_data"][channel_index + 1]

\* the loop is over with two different rows, the spike sample inside each
C10_TwoDifferentRows ==
    /\ pc = "reduce"
    /\ Len(spike_waveforms) >= 2
    /\ spike_waveforms[1] # spike_waveforms[2]
    /\ post_samples >= 1
====
